---- MODULE Spec2Model ----
(***************************************************************************)
(* Model of the multi-provider AI invocation layer (backend/ai/            *)
(* aiProviders.js): the provider registry and its available flags, the     *)
(* Ollama availability probe, the six provider adapters, getBestProvider,  *)
(* getAvailableProviders, analyzeWithAI with its recursive fallback, and   *)
(* initializeProviders.                                                    *)
(*                                                                         *)
(* One analyzeWithAI call is modelled as a process whose steps are the     *)
(* synchronous stretches of code between two awaits.  The recursion        *)
(* `return await analyzeWithAI(content, prompt, available[0].key)` is      *)
(* flattened: the outcome of the innermost call is passed unchanged        *)
(* through every enclosing frame, so only the innermost frame's provider,  *)
(* model and error are state.  initializeProviders (GET /api/config) runs  *)
(* as a second process and the local Ollama service may start or stop at   *)
(* any time.                                                               *)
(*                                                                         *)
(* The callers and neighbours of that layer are modelled as specifications *)
(* of their own over their own variables: the response parsing of          *)
(* analyzeRFP / analyzeRFPComprehensive (AnalysisSpec), the file cache of  *)
(* the storage module (CacheSpec), generateResponse (GenSpec) and the      *)
(* upload pipeline processFile (UploadSpec).                               *)
(***************************************************************************)
EXTENDS Integers, Sequences, FiniteSets, TLC

\* ------------------------------------------------------------------ bounds
\* attempts records at most this many adapter invocations (it saturates)
MaxAttempts == 3
\* netCalls counts at most this many outbound requests (it saturates)
MaxNet == 3

\* --------------------------------------------------------------- registry
\* keys of `providers`, in the insertion order Object.entries enumerates
ProviderOrder == <<"anthropic", "xai", "openai", "groq", "ollama", "huggingface">>

Keys == {ProviderOrder[i] : i \in 1..Len(ProviderOrder)}

\* providers whose flag is !!process.env.<X>_API_KEY
Hosted == Keys \ {"ollama"}

\* providers called through an SDK client object that is null when unconfigured
SdkKeys == {"anthropic", "xai", "openai", "groq"}

\* JavaScript null / absent argument
Null == "none"

\* a preferredProvider string that names no entry of `providers`
UnknownKey == "bogus"

\* values a caller may pass as preferredProvider
PreferredInputs == Keys \cup {UnknownKey, Null}

\* values a caller may pass as preferredModel
ModelInputs == {Null, "claude-3-haiku-20240307"}

\* what the local service answers to GET /api/version:
\* "down" = connection error or timeout, "up" = a body, "empty" = an empty body
ServiceStates == {"down", "up", "empty"}

NoErr == [kind |-> "none", provider |-> Null]

NoResult == [provider |-> Null, model |-> Null]

NoPayloadIn == [adapter |-> Null, promptLen |-> 0, contentLen |-> 0]

NoPayload == [prompt |-> 0 - 1, doc |-> 0 - 1]

\* content.substring(0, 3000) in analyzeWithOllama
OllamaDocLimit == 3000

\* prompt.substring(0, 1000) in analyzeWithHuggingFace
HfInputLimit == 1000

\* lengths of the prompt and of the document text an adapter is called with
PromptLens == {0, 999, 1000, 1001, 5000}
ContentLens == {0, 2999, 3000, 3001, 10000}

NoReport == [available |-> <<>>, recommended |-> Null, total |-> 0 - 1]

VARIABLES
    env,            \* set of hosted providers whose API key is set in process.env
    client,         \* client[k]: the SDK client object of k is non-null
    available,      \* available[k]: providers[k].available
    ollamaService,  \* current state of the local Ollama service
    pc,             \* position of the analyzeWithAI call
    preferred,      \* preferredProvider of the top-level call
    preferredModel, \* preferredModel of the current frame
    provider,       \* `provider` of the current (innermost) frame
    attempts,       \* adapters invoked so far in this top-level call
    netCalls,       \* outbound requests sent so far in this top-level call
    err,            \* error caught by the current frame
    firstErr,       \* error raised by the first failed attempt of this call
    thrown,         \* error the top-level call threw
    result,         \* value the top-level call returned
    outcome,        \* "none" | "returned" | "threw"
    initPc,         \* position of initializeProviders
    report,         \* value initializeProviders returned last
    callProbeRet,   \* what checkOllamaAvailability returned to analyzeWithOllama
    initProbeRet,   \* what checkOllamaAvailability returned to initializeProviders
    probeWindow,    \* "single" / "overlap" while the service has not changed
                    \* since the first of the overlapping probes began (one
                    \* probe / several), "dirty" once it has, else "none"
    payloadIn,      \* adapter and lengths of (prompt, content) it is called with
    payload,        \* characters of prompt and of content in the request body
    analysisIn,     \* an analyzeRFP[Comprehensive] call and what the core does for it
    analysisOut,    \* position and outcome of that call
    clock,          \* Date.now(), in ticks
    cacheFile,      \* the record in CACHE_DIR/<key>.json, NoEntry if no such file
    cacheSave,      \* position and locals of saveToCache(key, ...)
    cacheGet,       \* position and locals of getFromCache(key)
    cacheClean,     \* position and locals of cleanupCache()
    genIn,          \* options and environment of a generateResponse call
    genOut,         \* position and outcome of that call
    upload,         \* position, locals and outcome of processFile(file)
    processed       \* content ids that have a record in PROCESSED_DIR

vars == <<env, client, available, ollamaService, pc, preferred, preferredModel,
          provider, attempts, netCalls, err, firstErr, thrown, result, outcome,
          initPc, report, callProbeRet, initProbeRet, probeWindow,
          payloadIn, payload, analysisIn, analysisOut, clock, cacheFile,
          cacheSave, cacheGet, cacheClean, genIn, genOut, upload, processed>>

registryVars == <<env, client, available>>
callVars == <<pc, preferred, preferredModel, provider, attempts, netCalls,
              err, firstErr, thrown, result, outcome, callProbeRet>>
initVars == <<initPc, report, initProbeRet>>
payloadVars == <<payloadIn, payload>>
analysisVars == <<analysisIn, analysisOut>>
cacheVars == <<clock, cacheFile, cacheSave, cacheGet, cacheClean>>
genVars == <<genIn, genOut>>
uploadVars == <<upload, processed>>
\* the variables of the callers and neighbours of the invocation layer
appVars == <<analysisVars, cacheVars, genVars, uploadVars>>
\* the variables of the invocation layer itself
coreVars == <<registryVars, ollamaService, callVars, initVars, probeWindow, payloadVars>>

\* ---------------------------------------------------------- pure functions
\* getAvailableProviders(): entries of `providers` with a true flag, in order
getAvailableProviders(av) == SelectSeq(ProviderOrder, LAMBDA k : av[k])

\* a getBestProvider that tests groq before ollama
getBestProviderGroqFirst(av) ==
    IF av["anthropic"] THEN "anthropic"
    ELSE IF av["xai"] THEN "xai"
    ELSE IF av["groq"] THEN "groq"
    ELSE IF av["ollama"] THEN "ollama"
    ELSE IF av["huggingface"] THEN "huggingface"
    ELSE IF av["openai"] THEN "openai"
    ELSE Null

\* a getBestProvider that leaves the local provider out of its if-chain
getBestProviderHostedOnly(av) ==
    IF av["anthropic"] THEN "anthropic"
    ELSE IF av["xai"] THEN "xai"
    ELSE IF av["groq"] THEN "groq"
    ELSE IF av["huggingface"] THEN "huggingface"
    ELSE IF av["openai"] THEN "openai"
    ELSE Null

\* getBestProvider(): the if-chain over the flags
getBestProvider(av) ==
    IF av["anthropic"] THEN "anthropic"
    ELSE IF av["xai"] THEN "xai"
    ELSE IF av["ollama"] THEN "ollama"
    ELSE IF av["groq"] THEN "groq"
    ELSE IF av["huggingface"] THEN "huggingface"
    ELSE IF av["openai"] THEN "openai"
    ELSE Null

\* a provider selection that consults getBestProvider before the preference
SelectProviderBestFirst(pref, av) ==
    IF getBestProvider(av) # Null THEN getBestProvider(av) ELSE pref

\* const provider = preferredProvider || getBestProvider();
SelectProvider(pref, av) ==
    IF pref # Null THEN pref ELSE getBestProvider(av)

\* fallback candidates enumerated in getBestProvider's order
FallbackCandidatesBestFirst(av, failed) ==
    SelectSeq(<<"anthropic", "xai", "ollama", "groq", "huggingface", "openai">>,
              LAMBDA k : av[k] /\ k # failed)

\* getAvailableProviders().filter(p => p.key !== provider)
FallbackCandidates(av, failed) ==
    SelectSeq(getAvailableProviders(av), LAMBDA k : k # failed)

\* a catch branch that leaves the flag as it was
ProbeFlagStale(svc) == IF svc = "down" THEN available["ollama"] ELSE svc = "up"

\* a probe that flips the flag on every answer instead of setting it
ProbeFlagFlip(svc) == IF svc = "down" THEN FALSE ELSE ~available["ollama"]

\* providers.ollama.available = !!response.data   /  = false in the catch
ProbeFlag(svc) == svc = "up"

\* the boolean checkOllamaAvailability returns
ProbeReturn(svc) == svc # "down"

\* an analyzeWithOllama that does not look at the flag
OllamaGateOpen(av) == TRUE

\* if (!providers.ollama.available) throw ...: the adapter goes on iff this holds
OllamaGate(av) == av["ollama"]

\* the probe window after one more probe is sent
JoinWindow(w, otherInFlight) ==
    IF ~otherInFlight THEN "single"
    ELSE IF w = "dirty" THEN "dirty" ELSE "overlap"

\* a JavaScript boolean as the value a caller receives
BoolStr(b) == IF b THEN "true" ELSE "false"

\* an assignment that lands on another registry entry
SetWrongFlag(av, v) == [av EXCEPT !["openai"] = v]

\* providers.ollama.available = v
SetOllamaFlag(av, v) == [av EXCEPT !["ollama"] = v]

\* an adapter result tagged with the caller's preference
AdapterResultTaggedByPreference(k, m) ==
    [provider |-> IF preferred # Null THEN preferred ELSE k, model |-> m]

\* the {provider, model} fields of the object each adapter returns
AdapterResult(k, m) ==
    CASE k = "anthropic"   -> [provider |-> "anthropic", model |-> m]
      [] k = "xai"         -> [provider |-> "xai", model |-> "grok-beta"]
      [] k = "openai"      -> [provider |-> "openai", model |-> "gpt-3.5-turbo"]
      [] k = "groq"        -> [provider |-> "groq", model |-> "llama3-8b-8192"]
      [] k = "ollama"      -> [provider |-> "ollama", model |-> "llama3"]
      [] k = "huggingface" -> [provider |-> "huggingface", model |-> "DialoGPT-large"]

\* providers[k].models
Models ==
    [anthropic   |-> <<"claude-3-5-sonnet-20241022", "claude-3-haiku-20240307",
                       "claude-3-opus-20240229">>,
     xai         |-> <<"grok-beta", "grok-vision-beta">>,
     openai      |-> <<"gpt-3.5-turbo", "gpt-4", "gpt-4-turbo">>,
     groq        |-> <<"llama3-8b-8192", "llama3-70b-8192", "mixtral-8x7b-32768",
                       "gemma-7b-it">>,
     ollama      |-> <<"llama3", "mistral", "codellama", "phi3">>,
     huggingface |-> <<"microsoft/DialoGPT-large", "facebook/blenderbot-400M-distill">>]

\* the timeout of the request an adapter awaits: axios.post is called without
\* a timeout option (axios then never times out); the SDK clients are built
\* without one and keep their library's default
AdapterTimeout(k) ==
    IF k \in {"ollama", "huggingface"} THEN "none" ELSE "sdkDefault"

\* length of s.substring(0, n) for a string of length len
SubstringLen(len, n) == IF len < n THEN len ELSE n

\* how many characters of `prompt` and of `content` the request body of
\* adapter k carries: the SDK adapters send `prompt` as the user message and
\* never read `content`; Ollama sends prompt + content.substring(0, 3000);
\* Hugging Face sends prompt.substring(0, 1000) only
Payload(k, promptLen, contentLen) ==
    CASE k = "ollama" ->
            [prompt |-> promptLen, doc |-> SubstringLen(contentLen, OllamaDocLimit)]
      [] k = "huggingface" ->
            [prompt |-> SubstringLen(promptLen, HfInputLimit), doc |-> 0]
      [] OTHER ->
            [prompt |-> promptLen, doc |-> 0]

\* the adapter's credential gate: `if (!xClient) throw` / `if (!process.env.HUGGINGFACE_API_KEY) throw`
Configured(k) ==
    IF k \in SdkKeys THEN client[k] ELSE k \in env

Append1(s, e, max) == IF Len(s) < max THEN Append(s, e) ELSE s

Inc(n, max) == IF n < max THEN n + 1 ELSE n

\* ----------------------------------------------- analysis of a response
\* the two entry points that parse the core's response text
AnalysisFunctions == {"analyzeRFP", "analyzeRFPComprehensive"}

\* what a response text is made of: the markdown fences (three backticks
\* followed by json, three backticks alone), a JSON object, a JSON array, the
\* JSON literal null (numbers, strings and booleans behave alike), free prose
Tokens == {"fenceJson", "fence", "object", "array", "null", "prose"}

\* a response text has at most this many pieces
MaxTextLen == 3

ResponseTexts == UNION {[1..n -> Tokens] : n \in 0..MaxTextLen}

\* the {provider, model} of the objects analyzeWithAI can return
CoreResponses == {AdapterResult(k, m) : k \in Keys, m \in ModelInputs}

AnalysisInputs ==
    [fn : AnalysisFunctions, configured : BOOLEAN, coreOk : BOOLEAN,
     text : ResponseTexts, response : CoreResponses]

NoAnalysisIn ==
    [fn |-> Null, configured |-> FALSE, coreOk |-> FALSE, text |-> <<>>,
     response |-> NoResult]

NoAnalysisOut ==
    [pc |-> "idle", outcome |-> "none", error |-> "none", kind |-> "none",
     rawField |-> Null, raw |-> <<>>, meta |-> NoResult]

\* the two chained responseText.replace(...) calls: all json fences are
\* removed first, then all plain fences
StripFences(text) ==
    SelectSeq(SelectSeq(text, LAMBDA t : t # "fenceJson"), LAMBDA t : t # "fence")

\* JSON.parse: the value of a text that is exactly one JSON value, else a
\* SyntaxError
JsonParse(text) ==
    IF Len(text) = 1 /\ text[1] \in {"object", "array", "null"}
    THEN [ok |-> TRUE, value |-> text[1]]
    ELSE [ok |-> FALSE, value |-> "SyntaxError"]

\* analysis.analysisMetadata = {...}: module code is strict, so the
\* assignment throws a TypeError unless `analysis` is an object
AcceptsProperty(value) == value \in {"object", "array"}

\* the field of the fallback record that holds the raw response text
RawTextField(fn) ==
    IF fn = "analyzeRFP" THEN "rawAnalysis" ELSE "comprehensiveAnalysis"

\* the code after `await analyzeWithAI(...)` returned: parse or fall back,
\* then attach analysisMetadata
ParseAnalysis(fn, text, response) ==
    LET parsed == JsonParse(StripFences(text))
        analysis == IF parsed.ok THEN parsed.value ELSE "object"
    IN  IF ~AcceptsProperty(analysis)
        THEN [NoAnalysisOut EXCEPT !.pc = "done", !.outcome = "threw",
                                   !.error = "TypeError"]
        ELSE [pc |-> "done", outcome |-> "returned", error |-> "none",
              kind |-> IF parsed.ok THEN "parsed" ELSE "fallback",
              rawField |-> IF parsed.ok THEN Null ELSE RawTextField(fn),
              raw |-> IF parsed.ok THEN <<>> ELSE text,
              meta |-> [provider |-> response.provider, model |-> response.model]]

\* -------------------------------------------------------------- file cache
\* the clock runs up to this many ticks
MaxClock == 3

\* ttlHours a caller of saveToCache may pass, in ticks
TtlInputs == {1, 2}

\* no file / no record read
NoEntry == [savedAt |-> 0 - 1, expiresAt |-> 0 - 1]

\* the record saveToCache builds at time t
CacheRecord(t, ttl) == [savedAt |-> t, expiresAt |-> t + ttl]

\* new Date() > new Date(record.expiresAt)
Expired(rec, t) == t > rec.expiresAt

\* a cache function that is not running and has returned nothing yet
CacheCallIdle == [pc |-> "idle", rec |-> NoEntry, ret |-> "none"]

\* a cache function returns value v
CacheReturn(rec, v) == [pc |-> "idle", rec |-> rec, ret |-> v]

\* -------------------------------------------------------- generateResponse
\* options.analysis: an analysis record (named by its title) or undefined
AnalysisOptions == {"undefined", "Playout upgrade", "Newsroom MAM", "OB van"}

\* options.selectedDocuments has at most this many entries
MaxDocuments == 2

GenInputs ==
    [hasKey : BOOLEAN, analysis : AnalysisOptions, documents : 0..MaxDocuments,
     custom : BOOLEAN]

\* what openai.chat.completions.create does: a completion, or a rejection
BackendAnswers == {"completion", "Rate limit exceeded", "Connection error"}

NoGenIn == [hasKey |-> FALSE, analysis |-> "undefined", documents |-> 0, custom |-> FALSE]

NoGenOut ==
    [pc |-> "idle", state |-> "pending", error |-> FALSE, errorMessage |-> Null,
     analysis |-> Null, rejection |-> Null]

\* the names bound where the catch block of generateResponse is evaluated: the
\* parameter, the catch parameter and the module's top-level names; the const
\* bindings of the destructuring (analysis, ...) belong to the try block only
CatchBindings ==
    {"options", "error", "openai", "RESPONSE_TEMPLATE_CONTEXT", "extractSections"}

\* the successful return value of generateResponse
GenResponse(in) ==
    [pc |-> "done", state |-> "resolved", error |-> FALSE, errorMessage |-> Null,
     analysis |-> in.analysis, rejection |-> Null]

\* the catch block: it builds the error record, whose last property reads
\* the identifier `analysis`
GenCatch(in, message) ==
    IF "analysis" \in CatchBindings
    THEN [pc |-> "done", state |-> "resolved", error |-> TRUE,
          errorMessage |-> message, analysis |-> in.analysis, rejection |-> Null]
    ELSE [pc |-> "done", state |-> "rejected", error |-> FALSE,
          errorMessage |-> Null, analysis |-> Null,
          rejection |-> "ReferenceError: analysis is not defined"]

\* ------------------------------------------------------------- processFile
\* path.extname(file.originalname).toLowerCase()
Extensions == {".odt", ".ods", ".doc", ".docx", ".xlsx", ".xls", ".pdf", ".txt", ".csv"}

\* the extensions the switch of processFile has a case for
ParsedExtensions == Extensions \ {".csv"}

\* at most this many content ids are issued
MaxUploads == 2

NoUpload ==
    [pc |-> "idle", ext |-> Null, onDisk |-> FALSE, parseFailed |-> FALSE,
     contentId |-> 0, outcome |-> "none", issued |-> 0]

\* ------------------------------------------------------------ idle states
AnalysisIdle == analysisIn = NoAnalysisIn /\ analysisOut = NoAnalysisOut

CacheIdle ==
    /\ clock = 0
    /\ cacheFile = NoEntry
    /\ cacheSave = CacheCallIdle
    /\ cacheGet = CacheCallIdle
    /\ cacheClean = CacheCallIdle

GenIdle == genIn = NoGenIn /\ genOut = NoGenOut

UploadIdle == upload = NoUpload /\ processed = {}

\* nothing outside the invocation layer is running
AppIdle == AnalysisIdle /\ CacheIdle /\ GenIdle /\ UploadIdle

\* -------------------------------------------------------------------- init
Init ==
    /\ env \in SUBSET Hosted
    /\ available = [k \in Keys |-> k \in env]
    /\ client = [k \in SdkKeys |-> k \in env]
    /\ ollamaService \in ServiceStates
    /\ pc = "idle"
    /\ preferred = Null
    /\ preferredModel = Null
    /\ provider = Null
    /\ attempts = <<>>
    /\ netCalls = 0
    /\ err = NoErr
    /\ firstErr = NoErr
    /\ thrown = NoErr
    /\ result = NoResult
    /\ outcome = "none"
    /\ initPc = "idle"
    /\ report = NoReport
    /\ callProbeRet = "none"
    /\ initProbeRet = "none"
    /\ probeWindow = "none"
    /\ payloadIn = NoPayloadIn
    /\ payload = NoPayload
    /\ AppIdle

\* ------------------------------------------------------------ analyzeWithAI
\* the switch of analyzeWithAI up to the first await of the adapter it enters;
\* att, net and fe are the attempts, request count and first error so far
Dispatch(p, att, net, fe) ==
    /\ provider' = p
    /\ probeWindow' = IF p = "ollama"
                      THEN JoinWindow(probeWindow, initPc = "probing")
                      ELSE probeWindow
    /\ IF p \notin Keys
       THEN \* default: throw new Error(`Unknown provider: ${provider}`)
            /\ pc' = "failed"
            /\ err' = [kind |-> "UnknownProvider", provider |-> p]
            /\ firstErr' = IF fe = NoErr THEN err' ELSE fe
            /\ attempts' = att
            /\ netCalls' = net
       ELSE IF p = "ollama"
       THEN \* await checkOllamaAvailability(): axios.get is sent
            /\ pc' = "awaitProbe"
            /\ err' = NoErr
            /\ firstErr' = fe
            /\ attempts' = Append1(att, p, MaxAttempts)
            /\ netCalls' = Inc(net, MaxNet)
       ELSE IF ~Configured(p)
       THEN \* throw new Error('<X> not configured')
            /\ pc' = "failed"
            /\ err' = [kind |-> "NotConfigured", provider |-> p]
            /\ firstErr' = IF fe = NoErr THEN err' ELSE fe
            /\ attempts' = Append1(att, p, MaxAttempts)
            /\ netCalls' = net
       ELSE \* the request to the hosted backend is sent
            /\ pc' = "awaitAdapter"
            /\ err' = NoErr
            /\ firstErr' = fe
            /\ attempts' = Append1(att, p, MaxAttempts)
            /\ netCalls' = Inc(net, MaxNet)

\* analyzeWithAI(content, prompt, pref, m) is called by a request handler
StartCall ==
    /\ pc = "idle"
    /\ \E pref \in PreferredInputs, m \in ModelInputs :
         /\ preferred' = pref
         /\ preferredModel' = m
         /\ result' = NoResult
         /\ LET p == SelectProvider(pref, available) IN
            IF p = Null
            THEN \* throw new Error('No AI providers available. ...')
                 /\ pc' = "done"
                 /\ outcome' = "threw"
                 /\ thrown' = [kind |-> "NoProviderAvailable", provider |-> Null]
                 /\ UNCHANGED <<provider, attempts, netCalls, err, firstErr, probeWindow>>
            ELSE /\ Dispatch(p, <<>>, 0, NoErr)
                 /\ outcome' = "none"
                 /\ thrown' = NoErr
    /\ UNCHANGED <<appVars, payloadVars, registryVars, ollamaService, initVars, callProbeRet>>

\* the hosted backend, or Ollama's /api/generate, answers or fails
AdapterResponse ==
    /\ pc = "awaitAdapter"
    /\ \E ok \in BOOLEAN :
         IF ok
         THEN /\ pc' = "done"
              /\ outcome' = "returned"
              /\ result' = AdapterResult(provider, preferredModel)
              /\ UNCHANGED <<err, firstErr>>
         ELSE /\ pc' = "failed"
              /\ err' = [kind |-> "AdapterFailure", provider |-> provider]
              /\ firstErr' = IF firstErr = NoErr THEN err' ELSE firstErr
              /\ UNCHANGED <<outcome, result>>
    /\ UNCHANGED <<appVars, payloadVars, registryVars, ollamaService, preferred, preferredModel,
                   provider, attempts, netCalls, thrown, initVars, callProbeRet,
                   probeWindow>>

\* checkOllamaAvailability, called by analyzeWithOllama, resumes after axios.get
CallProbeResponse ==
    /\ pc = "awaitProbe"
    /\ available' = SetOllamaFlag(available, ProbeFlag(ollamaService))
    /\ callProbeRet' = BoolStr(ProbeReturn(ollamaService))
    /\ pc' = "afterProbe"
    /\ UNCHANGED <<appVars, payloadVars, env, client, ollamaService, preferred, preferredModel,
                   provider, attempts, netCalls, err, firstErr, thrown, result,
                   outcome, initVars, probeWindow>>

\* analyzeWithOllama resumes after `await checkOllamaAvailability()`
OllamaContinue ==
    /\ pc = "afterProbe"
    /\ IF ~OllamaGate(available)
       THEN \* throw new Error('Ollama not available. ...')
            /\ pc' = "failed"
            /\ err' = [kind |-> "OllamaNotAvailable", provider |-> "ollama"]
            /\ firstErr' = IF firstErr = NoErr THEN err' ELSE firstErr
            /\ UNCHANGED netCalls
       ELSE \* axios.post('http://localhost:11434/api/generate', ...)
            /\ pc' = "awaitAdapter"
            /\ netCalls' = Inc(netCalls, MaxNet)
            /\ UNCHANGED <<err, firstErr>>
    /\ callProbeRet' = "none"
    /\ UNCHANGED <<appVars, payloadVars, registryVars, ollamaService, preferred, preferredModel,
                   provider, attempts, thrown, result, outcome, initVars,
                   probeWindow>>

\* the catch block of analyzeWithAI
Catch ==
    /\ pc = "failed"
    /\ LET cand == FallbackCandidates(available, provider) IN
       IF Len(cand) > 0
       THEN \* return await analyzeWithAI(content, prompt, available[0].key)
            /\ preferredModel' = Null
            /\ Dispatch(SelectProvider(Head(cand), available), attempts, netCalls, firstErr)
            /\ UNCHANGED <<outcome, thrown>>
       ELSE \* throw error
            /\ pc' = "done"
            /\ outcome' = "threw"
            /\ thrown' = err
            /\ UNCHANGED <<preferredModel, provider, attempts, netCalls, err, firstErr,
                           probeWindow>>
    /\ UNCHANGED <<appVars, payloadVars, registryVars, ollamaService, preferred, result, initVars,
                   callProbeRet>>

\* the request handler has consumed the outcome; the call's locals are gone
Finish ==
    /\ pc = "done"
    /\ pc' = "idle"
    /\ preferred' = Null
    /\ preferredModel' = Null
    /\ provider' = Null
    /\ attempts' = <<>>
    /\ netCalls' = 0
    /\ err' = NoErr
    /\ firstErr' = NoErr
    /\ thrown' = NoErr
    /\ result' = NoResult
    /\ outcome' = "none"
    /\ UNCHANGED <<appVars, payloadVars, registryVars, ollamaService, initVars, callProbeRet, probeWindow>>

\* ------------------------------------------------------ initializeProviders
\* initializeProviders() is called: checkOllamaAvailability sends axios.get
InitStart ==
    /\ initPc = "idle"
    /\ initPc' = "probing"
    /\ probeWindow' = JoinWindow(probeWindow, pc = "awaitProbe")
    /\ UNCHANGED <<appVars, payloadVars, registryVars, ollamaService, callVars, report, initProbeRet>>

\* checkOllamaAvailability, called by initializeProviders, resumes
InitProbeResponse ==
    /\ initPc = "probing"
    /\ available' = SetOllamaFlag(available, ProbeFlag(ollamaService))
    /\ initProbeRet' = BoolStr(ProbeReturn(ollamaService))
    /\ initPc' = "probed"
    /\ UNCHANGED <<appVars, payloadVars, env, client, ollamaService, callVars, report, probeWindow>>

\* initializeProviders resumes after the await and builds its report
InitReport ==
    /\ initPc = "probed"
    /\ initPc' = "idle"
    /\ report' = [available |-> getAvailableProviders(available),
                  recommended |-> getBestProvider(available),
                  total |-> Len(getAvailableProviders(available))]
    /\ initProbeRet' = "none"
    /\ UNCHANGED <<appVars, payloadVars, registryVars, ollamaService, callVars, probeWindow>>

\* ------------------------------------------------------------- environment
\* the local Ollama service starts, stops or changes what it answers
ServiceChange ==
    /\ \E s \in ServiceStates \ {ollamaService} : ollamaService' = s
    /\ probeWindow' = IF pc = "awaitProbe" \/ initPc = "probing" THEN "dirty" ELSE "none"
    /\ UNCHANGED <<appVars, payloadVars, registryVars, callVars, initVars>>

Next ==
    \/ StartCall
    \/ AdapterResponse
    \/ CallProbeResponse
    \/ OllamaContinue
    \/ Catch
    \/ Finish
    \/ InitStart
    \/ InitProbeResponse
    \/ InitReport
    \/ ServiceChange

Spec == Init /\ [][Next]_vars

\* every awaited operation of a started call completes and the call resumes
LiveSpec ==
    /\ Init /\ [][Next]_vars
    /\ WF_vars(AdapterResponse)
    /\ WF_vars(CallProbeResponse)
    /\ WF_vars(OllamaContinue)
    /\ WF_vars(Catch)

\* ------------------------------------------------------- request payloads
\* an adapter is about to be called with a prompt and a document text
PayloadInit ==
    /\ payloadIn \in [adapter : Keys, promptLen : PromptLens, contentLen : ContentLens]
    /\ payload = NoPayload
    /\ env = Hosted
    /\ available = [k \in Keys |-> TRUE]
    /\ client = [k \in SdkKeys |-> TRUE]
    /\ ollamaService = "up"
    /\ pc = "idle"
    /\ preferred = Null
    /\ preferredModel = Null
    /\ provider = Null
    /\ attempts = <<>>
    /\ netCalls = 0
    /\ err = NoErr
    /\ firstErr = NoErr
    /\ thrown = NoErr
    /\ result = NoResult
    /\ outcome = "none"
    /\ initPc = "idle"
    /\ report = NoReport
    /\ callProbeRet = "none"
    /\ initProbeRet = "none"
    /\ probeWindow = "none"
    /\ AppIdle

\* the adapter builds the body of its request
BuildPayload ==
    /\ payload = NoPayload
    /\ payload' = Payload(payloadIn.adapter, payloadIn.promptLen, payloadIn.contentLen)
    /\ UNCHANGED <<appVars, payloadIn, registryVars, ollamaService, callVars, initVars, probeWindow>>

PayloadNext == BuildPayload

PayloadSpec == PayloadInit /\ [][PayloadNext]_vars

\* the invocation layer as the module's top level leaves it, every
\* credential set, no call running
CoreIdle ==
    /\ env = Hosted
    /\ available = [k \in Keys |-> k \in Hosted]
    /\ client = [k \in SdkKeys |-> TRUE]
    /\ ollamaService = "up"
    /\ pc = "idle"
    /\ preferred = Null
    /\ preferredModel = Null
    /\ provider = Null
    /\ attempts = <<>>
    /\ netCalls = 0
    /\ err = NoErr
    /\ firstErr = NoErr
    /\ thrown = NoErr
    /\ result = NoResult
    /\ outcome = "none"
    /\ initPc = "idle"
    /\ report = NoReport
    /\ callProbeRet = "none"
    /\ initProbeRet = "none"
    /\ probeWindow = "none"
    /\ payloadIn = NoPayloadIn
    /\ payload = NoPayload

\* ------------------------------------ analyzeRFP / analyzeRFPComprehensive
\* a handler is about to call analyzeRFP or analyzeRFPComprehensive
AnalysisInit ==
    /\ CoreIdle
    /\ analysisIn \in AnalysisInputs
    /\ analysisOut = NoAnalysisOut
    /\ CacheIdle /\ GenIdle /\ UploadIdle

\* the function runs up to `await analyzeWithAI(...)`
AnalyzeStart ==
    /\ analysisOut.pc = "idle"
    /\ analysisOut' =
         IF ~analysisIn.configured
         THEN \* throw new Error('No AI providers configured. ...'), rethrown
              [NoAnalysisOut EXCEPT !.pc = "done", !.outcome = "threw",
                                    !.error = "NoProvidersConfigured"]
         ELSE [NoAnalysisOut EXCEPT !.pc = "awaitCore"]
    /\ UNCHANGED <<coreVars, analysisIn, cacheVars, genVars, uploadVars>>

\* analyzeWithAI returns its response object, or throws
AnalyzeResume ==
    /\ analysisOut.pc = "awaitCore"
    /\ analysisOut' =
         IF ~analysisIn.coreOk
         THEN \* the outer catch rethrows the core's error
              [NoAnalysisOut EXCEPT !.pc = "done", !.outcome = "threw",
                                    !.error = "CoreError"]
         ELSE ParseAnalysis(analysisIn.fn, analysisIn.text, analysisIn.response)
    /\ UNCHANGED <<coreVars, analysisIn, cacheVars, genVars, uploadVars>>

AnalysisNext == AnalyzeStart \/ AnalyzeResume

AnalysisSpec == AnalysisInit /\ [][AnalysisNext]_vars

\* -------------------------------------------------------------- file cache
\* the server is up and the cache directory is empty
CacheInit == CoreIdle /\ AppIdle

\* time passes
Tick ==
    /\ clock < MaxClock
    /\ clock' = clock + 1
    /\ UNCHANGED <<coreVars, analysisVars, cacheFile, cacheSave, cacheGet, cacheClean,
                   genVars, uploadVars>>

\* saveToCache(key, data, ttl) builds its record and starts fs.writeJSON
SaveStart ==
    /\ cacheSave.pc = "idle"
    /\ \E ttl \in TtlInputs :
         cacheSave' = [pc |-> "writing", rec |-> CacheRecord(clock, ttl), ret |-> "none"]
    /\ UNCHANGED <<coreVars, analysisVars, clock, cacheFile, cacheGet, cacheClean,
                   genVars, uploadVars>>

\* fs.writeJSON completes (the file now holds the record) or fails
SaveWritten ==
    /\ cacheSave.pc = "writing"
    /\ \E ok \in BOOLEAN :
         IF ok
         THEN /\ cacheFile' = cacheSave.rec
              /\ cacheSave' = CacheReturn(NoEntry, "true")
         ELSE /\ UNCHANGED cacheFile
              /\ cacheSave' = CacheReturn(NoEntry, "false")
    /\ UNCHANGED <<coreVars, analysisVars, clock, cacheGet, cacheClean, genVars, uploadVars>>

\* getFromCache(key) starts fs.pathExists
GetStart ==
    /\ cacheGet.pc = "idle"
    /\ cacheGet' = [pc |-> "checking", rec |-> NoEntry, ret |-> "none"]
    /\ UNCHANGED <<coreVars, analysisVars, clock, cacheFile, cacheSave, cacheClean,
                   genVars, uploadVars>>

\* fs.pathExists answers: return null, or start fs.readJSON
GetExists ==
    /\ cacheGet.pc = "checking"
    /\ cacheGet' = IF cacheFile = NoEntry
                   THEN CacheReturn(NoEntry, "null")
                   ELSE [cacheGet EXCEPT !.pc = "reading"]
    /\ UNCHANGED <<coreVars, analysisVars, clock, cacheFile, cacheSave, cacheClean,
                   genVars, uploadVars>>

\* fs.readJSON answers and the expiry check runs: the read fails (the file is
\* gone, the catch returns null), the record is expired (start fs.remove), or
\* its data is returned
GetRead ==
    /\ cacheGet.pc = "reading"
    /\ cacheGet' = IF cacheFile = NoEntry
                   THEN CacheReturn(NoEntry, "null")
                   ELSE IF Expired(cacheFile, clock)
                   THEN [pc |-> "removing", rec |-> cacheFile, ret |-> "none"]
                   ELSE CacheReturn(cacheFile, "data")
    /\ UNCHANGED <<coreVars, analysisVars, clock, cacheFile, cacheSave, cacheClean,
                   genVars, uploadVars>>

\* fs.remove(filePath) of getFromCache completes
GetRemove ==
    /\ cacheGet.pc = "removing"
    /\ cacheFile' = NoEntry
    /\ cacheGet' = CacheReturn(NoEntry, "null")
    /\ UNCHANGED <<coreVars, analysisVars, clock, cacheSave, cacheClean, genVars, uploadVars>>

\* cleanupCache() starts fs.readdir
CleanStart ==
    /\ cacheClean.pc = "idle"
    /\ cacheClean' = [pc |-> "listing", rec |-> NoEntry, ret |-> "none"]
    /\ UNCHANGED <<coreVars, analysisVars, clock, cacheFile, cacheSave, cacheGet,
                   genVars, uploadVars>>

\* fs.readdir answers: nothing to do, or start fs.readJSON of the file
CleanListed ==
    /\ cacheClean.pc = "listing"
    /\ cacheClean' = IF cacheFile = NoEntry
                     THEN CacheReturn(NoEntry, "0")
                     ELSE [cacheClean EXCEPT !.pc = "reading"]
    /\ UNCHANGED <<coreVars, analysisVars, clock, cacheFile, cacheSave, cacheGet,
                   genVars, uploadVars>>

\* fs.readJSON answers: an unreadable file and an expired record are removed
CleanRead ==
    /\ cacheClean.pc = "reading"
    /\ cacheClean' = IF cacheFile = NoEntry \/ Expired(cacheFile, clock)
                     THEN [pc |-> "removing", rec |-> cacheFile, ret |-> "none"]
                     ELSE CacheReturn(NoEntry, "0")
    /\ UNCHANGED <<coreVars, analysisVars, clock, cacheFile, cacheSave, cacheGet,
                   genVars, uploadVars>>

\* fs.remove(filePath) of cleanupCache completes
CleanRemove ==
    /\ cacheClean.pc = "removing"
    /\ cacheFile' = NoEntry
    /\ cacheClean' = CacheReturn(NoEntry, "1")
    /\ UNCHANGED <<coreVars, analysisVars, clock, cacheSave, cacheGet, genVars, uploadVars>>

CacheNext ==
    \/ Tick
    \/ SaveStart
    \/ SaveWritten
    \/ GetStart
    \/ GetExists
    \/ GetRead
    \/ GetRemove
    \/ CleanStart
    \/ CleanListed
    \/ CleanRead
    \/ CleanRemove

CacheSpec == CacheInit /\ [][CacheNext]_vars

\* -------------------------------------------------------- generateResponse
\* a handler is about to call generateResponse(options)
GenInit ==
    /\ CoreIdle
    /\ genIn \in GenInputs
    /\ genOut = NoGenOut
    /\ AnalysisIdle /\ CacheIdle /\ UploadIdle

\* the try block up to `await openai.chat.completions.create(...)`
GenStart ==
    /\ genOut.pc = "idle"
    /\ genOut' =
         IF ~genIn.hasKey
         THEN GenCatch(genIn, "OpenAI API key not configured")
         ELSE IF genIn.analysis = "undefined"
         THEN \* the prompt template reads analysis.title
              GenCatch(genIn, "Cannot read properties of undefined (reading 'title')")
         ELSE [NoGenOut EXCEPT !.pc = "awaitCompletion"]
    /\ UNCHANGED <<coreVars, analysisVars, cacheVars, genIn, uploadVars>>

\* the chat completion arrives, or the request fails
GenCompletion ==
    /\ genOut.pc = "awaitCompletion"
    /\ \E answer \in BackendAnswers :
         genOut' = IF answer = "completion"
                   THEN GenResponse(genIn)
                   ELSE GenCatch(genIn, answer)
    /\ UNCHANGED <<coreVars, analysisVars, cacheVars, genIn, uploadVars>>

GenNext == GenStart \/ GenCompletion

GenSpec == GenInit /\ [][GenNext]_vars

\* ------------------------------------------------------------- processFile
\* the server is up and no document has been processed
UploadInit == CoreIdle /\ AppIdle

\* processFile(file) is called on a file multer has written to file.path; an
\* extension without a case throws inside the try and is handled as a parse
\* failure
ProcessStart ==
    /\ upload.pc = "idle"
    /\ upload.issued < MaxUploads
    /\ \E ext \in Extensions :
         upload' = IF ext \in ParsedExtensions
                   THEN [upload EXCEPT !.pc = "parsing", !.ext = ext, !.onDisk = TRUE]
                   ELSE [upload EXCEPT !.pc = "saving", !.ext = ext, !.onDisk = TRUE,
                                       !.parseFailed = TRUE,
                                       !.contentId = upload.issued + 1,
                                       !.issued = upload.issued + 1]
    /\ UNCHANGED <<coreVars, analysisVars, cacheVars, genVars, processed>>

\* the format parser returns text or throws; either way the content id is
\* drawn and saveProcessedContent is started
ParseDone ==
    /\ upload.pc = "parsing"
    /\ \E ok \in BOOLEAN :
         upload' = [upload EXCEPT !.pc = "saving", !.parseFailed = ~ok,
                                  !.contentId = upload.issued + 1,
                                  !.issued = upload.issued + 1]
    /\ UNCHANGED <<coreVars, analysisVars, cacheVars, genVars, processed>>

\* saveProcessedContent resolves (the record is written; fs.remove is
\* started) or rejects (processFile throws)
SaveDone ==
    /\ upload.pc = "saving"
    /\ \E ok \in BOOLEAN :
         IF ok
         THEN /\ processed' = processed \cup {upload.contentId}
              /\ upload' = [upload EXCEPT !.pc = "removing"]
         ELSE /\ UNCHANGED processed
              /\ upload' = [upload EXCEPT !.pc = "done", !.outcome = "threw"]
    /\ UNCHANGED <<coreVars, analysisVars, cacheVars, genVars>>

\* fs.remove(file.path) resolves (processFile returns success: true) or
\* rejects (processFile throws)
RemoveDone ==
    /\ upload.pc = "removing"
    /\ \E ok \in BOOLEAN :
         upload' = IF ok
                   THEN [upload EXCEPT !.pc = "done", !.onDisk = FALSE,
                                       !.outcome = "returned"]
                   ELSE [upload EXCEPT !.pc = "done", !.outcome = "threw"]
    /\ UNCHANGED <<coreVars, analysisVars, cacheVars, genVars, processed>>

\* the route handler has answered the request
UploadFinish ==
    /\ upload.pc = "done"
    /\ upload' = [NoUpload EXCEPT !.issued = upload.issued]
    /\ UNCHANGED <<coreVars, analysisVars, cacheVars, genVars, processed>>

UploadNext ==
    \/ ProcessStart
    \/ ParseDone
    \/ SaveDone
    \/ RemoveDone
    \/ UploadFinish

UploadSpec == UploadInit /\ [][UploadNext]_vars

TypeOK ==
    /\ env \subseteq Hosted
    /\ available \in [Keys -> BOOLEAN]
    /\ pc \in {"idle", "awaitAdapter", "awaitProbe", "afterProbe", "failed", "done"}
    /\ preferred \in PreferredInputs
    /\ Len(attempts) <= MaxAttempts
    /\ netCalls \in 0..MaxNet
    /\ outcome \in {"none", "returned", "threw"}
    /\ initPc \in {"idle", "probing", "probed"}

\* ------------------------------------------------------- priority order
\* the documented priority: Claude > alternative paid APIs > free local >
\* free API > OpenAI, i.e. Ollama, Groq, Hugging Face, OpenAI among the four
PriorityOrder == <<"anthropic", "xai", "ollama", "groq", "huggingface", "openai">>

Rank(k) == CHOOSE i \in 1..Len(PriorityOrder) : PriorityOrder[i] = k

NoneAvailable(av) == \A k \in Keys : ~av[k]

\* the available provider no other available provider outranks, Null if none
HighestRanked(av) ==
    IF NoneAvailable(av) THEN Null
    ELSE CHOOSE k \in Keys : av[k] /\ \A j \in Keys : av[j] => Rank(k) <= Rank(j)

\* the flags with provider p masked out
Without(av, p) == [k \in Keys |-> av[k] /\ k # p]

\* the step in which a top-level call selects and enters its first adapter
CallStarts == pc = "idle" /\ pc' # "idle"

\* the step in which the catch block falls back to another provider
FallsBack ==
    /\ pc = "failed"
    /\ \/ pc' \in {"awaitAdapter", "awaitProbe"}
       \/ pc' = "failed" /\ err' # err

\* the step in which the awaited backend answers with text
AdapterAnswers == pc = "awaitAdapter" /\ pc' \notin {"awaitAdapter", "failed"}

\* ------------------------------------------------------------------ claims
\* C1: one top-level call of analyzeWithAI makes at most two adapter
\* invocations (one primary, at most one fallback), whatever providers are
\* available and whichever adapters fail.
C1_AtMostTwoAttempts == Len(attempts) <= 2

\* C2: every started top-level call of analyzeWithAI eventually completes
\* (returns or throws), provided each awaited adapter call completes.
C2_CallCompletes == (pc # "idle") ~> (pc = "done")

\* C3: within one top-level call no provider key is attempted more than once.
C3_NoProviderAttemptedTwice ==
    \A i, j \in 1..Len(attempts) : i # j => attempts[i] # attempts[j]

\* C4: when the primary and the fallback attempt both fail, the error thrown
\* to the caller is the error of the primary (first) attempt.
C4_ThrowsPrimaryError ==
    (pc = "done" /\ outcome = "threw" /\ Len(attempts) >= 2) => thrown = firstErr

\* C5: the provider attempted first has a true available flag at selection
\* time; a preferred key of an unavailable provider is not used.
C5_FirstAttemptIsAvailable ==
    [][(CallStarts /\ Len(attempts') > 0) => available[attempts'[1]]]_vars

\* C6: for every provider key k whose available flag is true, a call with
\* preferredProvider = k makes its first adapter attempt on k.
C6_PreferredAvailableIsFirst ==
    [][(CallStarts /\ preferred' \in Keys /\ available[preferred'])
         => (attempts' = <<preferred'>> /\ provider' = preferred')]_vars

C6_Witness ==
    /\ pc = "awaitAdapter"
    /\ preferred = "openai"
    /\ attempts = <<"openai">>
    /\ available["openai"] /\ available["anthropic"] /\ available["groq"]

\* C7: with no preference, getBestProvider returns the highest-ranked
\* provider among those whose flag is currently true (order: anthropic, xai,
\* ollama, groq, huggingface, openai), and null exactly when none is
\* available; it is evaluated on the flags as they are at each call, both in
\* initializeProviders' report and in analyzeWithAI's selection.
C7_BestProviderIsHighestRanked ==
    [][/\ (initPc = "probed" /\ initPc' = "idle")
            => /\ report'.recommended = HighestRanked(available)
               /\ (report'.recommended = Null <=> NoneAvailable(available))
       /\ (CallStarts /\ preferred' = Null)
            => IF NoneAvailable(available)
               THEN pc' = "done" /\ thrown'.kind = "NoProviderAvailable"
               ELSE provider' = HighestRanked(available)]_vars

C7_Witness ==
    /\ report.recommended = "ollama"
    /\ ~available["ollama"]
    /\ available["groq"] /\ available["huggingface"] /\ available["openai"]
    /\ pc = "awaitAdapter" /\ preferred = Null /\ provider = "groq"

\* C8: when the primary attempt fails, the fallback provider is the
\* highest-ranked provider, in getBestProvider's order, among the available
\* providers other than the one that just failed.
C8_FallbackIsHighestRanked ==
    [][FallsBack => provider' = HighestRanked(Without(available, provider))]_vars

\* C9: if no provider's available flag is true, analyzeWithAI fails with the
\* no-provider-available error and sends no outbound request, with or
\* without a preferred provider key.
C9_NoProviderNoNetwork ==
    [][(CallStarts /\ NoneAvailable(available))
         => (pc' = "done" /\ outcome' = "threw"
             /\ thrown'.kind = "NoProviderAvailable" /\ netCalls' = 0)]_vars

\* C10: after a failed attempt the call falls back to an available provider
\* other than the failed one whenever there is one, and throws only when there
\* is none; when an awaited adapter (primary or fallback) produces text, the
\* call returns a result instead of an error, and the result's provider field
\* is the key of the adapter that produced it, even when that differs from
\* the caller's preference.
C10_ResultNamesServingAdapter ==
    [][/\ FallsBack => (provider' # provider /\ available[provider'])
       /\ (pc = "failed" /\ pc' = "done")
            => NoneAvailable(Without(available, provider))
       /\ AdapterAnswers
            => /\ pc' = "done" /\ outcome' = "returned" /\ thrown' = NoErr
               /\ provider \in Keys
               /\ result'.provider = provider
               /\ Len(attempts) < MaxAttempts
                    => result'.provider = attempts[Len(attempts)]]_vars

C10_Witness ==
    /\ pc = "done" /\ outcome = "returned"
    /\ preferred = "anthropic" /\ attempts = <<"anthropic", "groq">>
    /\ firstErr = [kind |-> "AdapterFailure", provider |-> "anthropic"]
    /\ result.provider = "groq"

\* the providers an error object identifies: at most the adapter that raised it
ErrorNames(e) == IF e.provider = Null THEN {} ELSE {e.provider}

\* the step in which a probe's checkOllamaAvailability returns
CallProbeDone == pc = "awaitProbe" /\ pc' # "awaitProbe"
InitProbeDone == initPc = "probing" /\ initPc' # "probing"

\* no probe request is in flight
NoProbeInFlight == pc # "awaitProbe" /\ initPc # "probing"

\* C11: every error analyzeWithAI surfaces after an adapter failure names the
\* providers attempted in that call, and is not the adapter's own exception
\* passed on unchanged.
C11_ErrorNamesAttemptedProviders ==
    (pc = "done" /\ outcome = "threw" /\ attempts # <<>>)
        => /\ thrown # err
           /\ \A i \in 1..Len(attempts) : attempts[i] \in ErrorNames(thrown)

C13_ProbeNeverThrows ==
    [][/\ CallProbeDone
            => /\ pc' = "afterProbe"
               /\ callProbeRet' \in {"true", "false"}
               /\ available'["ollama"] = (ollamaService = "up")
               /\ ollamaService = "down"
                    => (callProbeRet' = "false" /\ ~available'["ollama"])
       /\ InitProbeDone
            => /\ initPc' = "probed"
               /\ initProbeRet' \in {"true", "false"}
               /\ available'["ollama"] = (ollamaService = "up")
               /\ ollamaService = "down"
                    => (initProbeRet' = "false" /\ ~available'["ollama"])]_vars

C13_Witness ==
    /\ initPc = "probed" /\ initProbeRet = "false"
    /\ ollamaService = "down" /\ ~available["ollama"]
    /\ report.recommended = "ollama"

\* C14: the local backend is probed before the selection of an invocation
\* reads the flags, so on a fresh process (no /api/config request yet) with
\* the local service running and no hosted credentials, a call without a
\* preference selects the local provider.
C14_FreshProcessSelectsLocal ==
    [][(CallStarts /\ preferred' = Null /\ env = {} /\ ollamaService = "up"
        /\ report = NoReport /\ initPc = "idle")
         => provider' = "ollama"]_vars

\* C15: the hosted providers' flags never change after initialisation; only a
\* probe's completion writes a flag, and only the local one; an adapter call,
\* failed or successful, leaves every flag as it was.
C15_OnlyProbeWritesLocalFlag ==
    [][/\ \A k \in Hosted : available'[k] = available[k]
       /\ available' # available => (CallProbeDone \/ InitProbeDone)
       /\ (pc = "awaitAdapter" /\ pc' # "awaitAdapter") => available' = available]_vars

C15_Witness ==
    /\ pc = "failed" /\ err.kind = "AdapterFailure"
    /\ err.provider \in Hosted /\ available[err.provider]
    /\ available["ollama"]

\* C16: for every interleaving of overlapping probes during which the local
\* service does not change, the local flag after all of them have finished
\* equals the service's reachability (it answers the version query with a
\* body).
C16_ConcurrentProbesAgree ==
    (probeWindow \in {"single", "overlap"} /\ NoProbeInFlight)
        => available["ollama"] = (ollamaService = "up")

C16_Witness ==
    /\ probeWindow = "overlap" /\ NoProbeInFlight
    /\ pc = "afterProbe" /\ initPc = "probed"
    /\ available["ollama"]

\* C17: one top-level call of analyzeWithAI issues at most two outbound
\* requests, one after another (the call has a single position, so at most
\* one of its requests is in flight at a time).
C17_AtMostTwoRequests == netCalls <= 2

\* C18: every outbound adapter request a call waits for is bounded by a
\* timeout, so that a backend that never answers cannot block the call.
C18_EveryRequestHasTimeout ==
    pc = "awaitAdapter" => AdapterTimeout(provider) # "none"

\* C20: when no model identifier is supplied, the model an adapter reports in
\* its result is the first entry of its provider's supported-model list, for
\* a primary attempt without preferredModel and for a fallback attempt.
C20_DefaultModelIsFirstEntry ==
    (pc = "done" /\ outcome = "returned" /\ preferredModel = Null)
        => result.model = Models[result.provider][1]

\* C19: for every adapter only the document text is truncated: the whole
\* prompt is in the request body, and at most the adapter's limit of document
\* characters (3,000 for the local adapter) is sent.
C19_OnlyDocumentTruncated ==
    payload # NoPayload
        => /\ payload.prompt = payloadIn.promptLen
           /\ payloadIn.adapter = "ollama" => payload.doc <= OllamaDocLimit

\* the API providers that bill per request
PaidProviders == {"openai", "anthropic", "xai"}

\* C21: whenever the local Ollama provider is available and the caller gives
\* no preference, provider selection picks Ollama ahead of every paid API
\* provider (OpenAI, Anthropic, xAI), whichever credentials are configured.
C21_LocalAheadOfPaid ==
    [][(CallStarts /\ preferred' = Null /\ available["ollama"])
         => provider' \notin PaidProviders]_vars

\* C23: in every successful result of analyzeWithAI the model field is a
\* member of the supported-model list of the provider named in the result,
\* for every preferredProvider / preferredModel and for primary and fallback
\* results alike.
C23_ResultModelIsSupported ==
    (pc = "done" /\ outcome = "returned")
        => \E i \in 1..Len(Models[result.provider]) :
               Models[result.provider][i] = result.model

\* the step in which the catch block handles the failure of the unknown key
UnknownKeyHandled ==
    pc = "failed" /\ provider = UnknownKey /\ (pc' # pc \/ provider' # provider)

\* C24: a call whose preferredProvider names no known provider makes no
\* network request for that key and is handled like a failed primary attempt:
\* its catch block falls back to the first available provider (registry
\* order), and only if no provider is available does it throw, and then the
\* 'Unknown provider' error.
C24_UnknownKeyFallsBack ==
    [][/\ (CallStarts /\ preferred' = UnknownKey)
            => /\ pc' = "failed" /\ err'.kind = "UnknownProvider"
               /\ netCalls' = 0 /\ attempts' = <<>>
       /\ (UnknownKeyHandled /\ ~NoneAvailable(available))
            => /\ pc' # "done" /\ outcome' = "none"
               /\ provider' = Head(getAvailableProviders(available))
               /\ attempts' = <<provider'>>
       /\ (UnknownKeyHandled /\ NoneAvailable(available))
            => /\ pc' = "done" /\ outcome' = "threw"
               /\ thrown' = [kind |-> "UnknownProvider", provider |-> UnknownKey]
               /\ netCalls' = 0]_vars

C24_Witness ==
    /\ preferred = UnknownKey /\ pc = "awaitAdapter"
    /\ provider = "openai" /\ attempts = <<"openai">> /\ netCalls = 1
    /\ available["ollama"] /\ available["huggingface"]

\* C25: every report returned by initializeProviders is internally
\* consistent, under any interleaving with concurrent probes and calls:
\* total is the number of entries in available, recommended is null exactly
\* when total is 0, and otherwise recommended is the key of one of the
\* entries in available.
C25_ReportConsistent ==
    report # NoReport
        => /\ report.total = Len(report.available)
           /\ (report.recommended = Null) <=> (report.total = 0)
           /\ report.total > 0
                => \E i \in 1..Len(report.available) :
                       report.available[i] = report.recommended

C25_Witness ==
    /\ report.total = 2 /\ report.recommended = "ollama"
    /\ pc = "afterProbe" /\ ~available["ollama"]

\* C26: the boolean checkOllamaAvailability returns always equals the value
\* it has just written to the local provider's available flag, for every
\* probe response, including a round trip whose response body is empty.
C26_ProbeReturnsWrittenFlag ==
    [][/\ CallProbeDone => callProbeRet' = BoolStr(available'["ollama"])
       /\ InitProbeDone => initProbeRet' = BoolStr(available'["ollama"])]_vars

\* C27: under any interleaving with probes of other in-flight requests,
\* analyzeWithOllama sends its generate request if and only if the probe
\* performed by that same invocation succeeded (returned true).
C27_GenerateIffOwnProbeSucceeded ==
    [][(pc = "afterProbe" /\ pc' # "afterProbe")
         => ((pc' = "awaitAdapter") <=> (callProbeRet = "true"))]_vars

\* the forms of the expected structured format: a JSON object, bare or
\* wrapped in markdown fences
ExpectedFormat(text) ==
    text \in {<<"object">>, <<"fenceJson", "object", "fence">>,
              <<"fence", "object", "fence">>}

\* C22: for every response text the core returns, analyzeRFPComprehensive and
\* analyzeRFP return an analysis record: the parsed object when the text is
\* the expected structured format, otherwise a fallback record embedding the
\* raw text; it carries analysisMetadata with the serving provider and model;
\* they never fail because of the structure of the text.
C22_AlwaysReturnsAnalysis ==
    (analysisOut.pc = "done" /\ analysisIn.configured /\ analysisIn.coreOk)
        => /\ analysisOut.outcome = "returned"
           /\ analysisOut.meta = analysisIn.response
           /\ ExpectedFormat(analysisIn.text) => analysisOut.kind = "parsed"
           /\ analysisOut.kind # "parsed"
                => (analysisOut.kind = "fallback" /\ analysisOut.raw = analysisIn.text)

\* C28: a cache entry written by saveToCache stays retrievable until its own
\* expiry time under any interleaving with getFromCache and cleanupCache on
\* the same key: the file is removed only while the entry it holds is
\* expired, and getFromCache never returns data whose expiry time has passed.
C28_EntryKeptUntilExpiry ==
    [][/\ (cacheFile # NoEntry /\ cacheFile' = NoEntry) => Expired(cacheFile, clock)
       /\ (cacheGet.pc = "reading" /\ cacheGet'.ret = "data")
            => ~Expired(cacheGet'.rec, clock)]_vars

\* C29: generateResponse never rejects: when the credential is missing or the
\* backend call fails it resolves to an error record whose metadata.error is
\* true, whose metadata.errorMessage is the failure's message and whose
\* analysis field is the analysis passed in by the caller.
C29_GenerateNeverRejects ==
    genOut.pc = "done"
        => /\ genOut.state = "resolved"
           /\ genOut.analysis = genIn.analysis
           /\ ~genIn.hasKey
                => (genOut.error /\ genOut.errorMessage = "OpenAI API key not configured")

\* C30: whenever processFile finishes, by returning or by throwing, the
\* uploaded file at file.path is gone; and when the format parser fails,
\* processFile still stores a record and returns success: true with a fresh
\* content id.
C30_UploadRemovedAndStored ==
    upload.pc = "done"
        => /\ ~upload.onDisk
           /\ upload.parseFailed
                => (upload.outcome = "returned" /\ upload.contentId \in processed)
====
